---- MODULE Spec2Model ----
(***************************************************************************)
(* Model of the UI-TARS action layer of browser_use:                       *)
(*   agent/uitars/parser.py      parse_action_vlm, parse_action,           *)
(*                               parse_action_args_pair, get_screen_point, *)
(*                               screen_point_to_bbox, get_element_by_bbox *)
(*   agent/uitars/controller.py  UITarsActionRegistry, UITarsController    *)
(*                                                                         *)
(* Text is a sequence of characters.  Each pure function of parser.py has  *)
(* a specification of its own whose Init draws the arguments and whose     *)
(* action applies the function; the controller is a state machine over     *)
(* successive act() calls.                                                 *)
(***************************************************************************)
EXTENDS Integers, Sequences, FiniteSets, TLC

VARIABLES
    pc,            \* position of the running call: "call", "done"
    bbox,          \* get_element_by_bbox: the query box <<x1, y1, x2, y2>>
    selector_map,  \* get_element_by_bbox: state.selector_map.values(), in order
    element,       \* get_element_by_bbox: index of the returned element, 0 = None
    point,         \* screen_point_to_bbox: the point, in half pixels <<2x, 2y>>
    size,          \* screen_point_to_bbox: <<width, height>>
    box,           \* screen_point_to_bbox: the returned tuple
    action_str,    \* parse_action: the argument
    parsed,        \* parse_action: the returned dict, or None
    text,          \* parse_action_vlm: the argument text
    factors,       \* parse_action_vlm: the argument factors
    screen_context,\* parse_action_vlm: the argument screen_context
    scale_factor,  \* parse_action_vlm: the argument scale_factor, 0 = None
    result,        \* parse_action_vlm: the returned list, or the exception
    last_state,    \* UITarsActionRegistry.last_state
    browser,       \* act: the argument browser
    prediction,    \* act: the argument prediction of the last call
    outcome,       \* act: of the last call, the exception that left it ("" =
                   \* none), the ActionResult it returned, and the events: what
                   \* it located and sent to the page
    calls          \* the act calls so far: the start_box each carried, its error

fnVars == <<bbox, selector_map, element, point, size, box, action_str, parsed,
            text, factors, screen_context, scale_factor, result>>

ctlVars == <<last_state, browser, prediction, outcome, calls>>

vars == <<pc, fnVars, ctlVars>>

(***************************************************************************)
(* Generic helpers.                                                        *)
(***************************************************************************)
Max(a, b) == IF a >= b THEN a ELSE b
Min(a, b) == IF a <= b THEN a ELSE b

\* Python's round() of the rational n/d (d > 0): nearest integer, ties to even.
Round(n, d) ==
    LET q == n \div d
        r == n - q * d
    IN  IF 2 * r < d THEN q
        ELSE IF 2 * r > d THEN q + 1
        ELSE IF q % 2 = 0 THEN q ELSE q + 1

\* All sequences over S of length 0..n.
SeqUpTo(S, n) == UNION {[1..k -> S] : k \in 0..n}

(***************************************************************************)
(* get_element_by_bbox (parser.py 220-249).                                *)
(* An element is its viewport_coordinates: has = FALSE is an element whose *)
(* viewport_coordinates is None; top_left = (left, top), top_right.x =     *)
(* right, bottom_left.y = bottom, width = right - left, height = bottom -  *)
(* top.                                                                    *)
(***************************************************************************)
MaxElems == 3
Coord == 0..2

NoCoord == [has |-> FALSE, left |-> 0, top |-> 0, right |-> 0, bottom |-> 0]

Elements ==
    {NoCoord} \cup
    {[has |-> TRUE, left |-> l, top |-> t, right |-> r, bottom |-> b] :
        l \in Coord, t \in Coord, r \in Coord, b \in Coord}

\* Elements a page can show: a rectangle has left < right and top < bottom.
PageElements == {e \in Elements : ~e.has \/ (e.left < e.right /\ e.top < e.bottom)}

\* Query boxes (x1, y1, x2, y2) with x1 <= x2 and y1 <= y2.
QueryBoxes ==
    {b \in Coord \X Coord \X Coord \X Coord : b[1] <= b[3] /\ b[2] <= b[4]}

Width(e) == e.right - e.left
Height(e) == e.bottom - e.top
Area(e) == Width(e) * Height(e)

\* lines 224-227: the test that puts an element on all_matches
Matches(b, e) ==
    /\ e.has
    /\ e.left <= b[1] /\ b[1] <= e.right
    /\ e.top <= b[2] /\ b[2] <= e.bottom

\* lines 222-228: the indices of all_matches, in iteration order
AllMatches(b, els) == SelectSeq([i \in 1..Len(els) |-> i], LAMBDA i : Matches(b, els[i]))

\* lines 230-236: one pass keeping the first element of strictly smaller area;
\* acc = <<element, smallest_area>>, element 0 = None, smallest_area -1 = inf
RECURSIVE SmallestFrom(_, _, _, _)
SmallestFromMutLast(ms, els, k, acc) ==
    IF k > Len(ms) THEN acc[1]
    ELSE LET a == Area(els[ms[k]])
         IN  IF acc[2] = -1 \/ a <= acc[2]
             THEN SmallestFrom(ms, els, k + 1, <<ms[k], a>>)
             ELSE SmallestFrom(ms, els, k + 1, acc)

SmallestFrom(ms, els, k, acc) ==
    IF k > Len(ms) THEN acc[1]
    ELSE LET a == Area(els[ms[k]])
         IN  IF acc[2] = -1 \/ a < acc[2]
             THEN SmallestFrom(ms, els, k + 1, <<ms[k], a>>)
             ELSE SmallestFrom(ms, els, k + 1, acc)

get_element_by_bbox(b, els) == SmallestFrom(AllMatches(b, els), els, 1, <<0, -1>>)

(***************************************************************************)
(* screen_point_to_bbox (parser.py 197-217).  The point is a float; it is  *)
(* kept in half pixels so that round() has ties to settle.                 *)
(***************************************************************************)
BBOX_SIZE == 10
MaxPoint == 16
ScreenDims == {0, 3, 12}

\* p = <<2x, 2y>>; BBOX_SIZE / 2 pixels are BBOX_SIZE half pixels
screen_point_to_bbox(p, width, height) ==
    << Round(Max(p[1] - BBOX_SIZE, 0), 2),
       Round(Max(p[2] - BBOX_SIZE, 0), 2),
       Round(Min(p[1] + BBOX_SIZE, 2 * width), 2),
       Round(Min(p[2] + BBOX_SIZE, 2 * height), 2) >>

(***************************************************************************)
(* Text.  A str is a sequence of characters.  A few literals the code      *)
(* searches for as a whole are kept as one character each ("Action:",      *)
(* "<bbox>", the argument names, ...); the letters they are made of never  *)
(* occur on their own next to them, so a search for the literal is a       *)
(* search for that character.  The letters i, f, a, e and the characters   *)
(* "." "-" "+" "_" do not occur outside literals, so the only text float() *)
(* accepts is a run of digits.                                             *)
(***************************************************************************)
SP == " "
NL == "\n"
BS == "\\"
SQ == "'"
DQ == "\""
Space == {SP, NL}                        \* \s, and what str.strip() removes
Quotes == {SQ, DQ}
Digits == {"0", "1", "2", "5"}
Idents == {"x", "n", "click", "type", "wait", "content", "direction",
           "start_box", "end_box", "start_coords", "end_coords"}
WordChars == Digits \cup Idents         \* \w

IsWord(c) == c \in WordChars

\* str.lstrip(chars) / str.rstrip(chars) / str.strip(chars)
RECURSIVE LStripSet(_, _)
LStripSet(s, S) == IF s # <<>> /\ Head(s) \in S THEN LStripSet(Tail(s), S) ELSE s

RECURSIVE RStripSet(_, _)
RStripSet(s, S) ==
    IF s # <<>> /\ s[Len(s)] \in S THEN RStripSet(SubSeq(s, 1, Len(s) - 1), S) ELSE s

StripSet(s, S) == RStripSet(LStripSet(s, S), S)
LStrip(s) == LStripSet(s, Space)
Strip(s) == StripSet(s, Space)

\* sub occurs in s at index i
OccursAt(s, sub, i) ==
    /\ i >= 1
    /\ i + Len(sub) - 1 <= Len(s)
    /\ \A k \in 1..Len(sub) : s[i + k - 1] = sub[k]

\* sub in s
Contains(s, sub) == \E i \in 1..Len(s) : OccursAt(s, sub, i)

\* str.startswith
StartsWith(s, sub) == OccursAt(s, sub, 1)

\* str.find(sub, from): the least index >= from where sub occurs, 0 when none
Find(s, sub, from) ==
    IF \E i \in from..Len(s) : OccursAt(s, sub, i)
    THEN CHOOSE i \in from..Len(s) :
            OccursAt(s, sub, i) /\ \A j \in from..(i - 1) : ~OccursAt(s, sub, j)
    ELSE 0

\* str.replace(old, new) for a non-empty old: leftmost, non-overlapping
RECURSIVE Replace(_, _, _)
Replace(s, old, new) ==
    LET i == Find(s, old, 1)
    IN  IF i = 0 THEN s
        ELSE SubSeq(s, 1, i - 1) \o new
                \o Replace(SubSeq(s, i + Len(old), Len(s)), old, new)

\* str.split(sep): leftmost, non-overlapping; always at least one part
RECURSIVE Split(_, _)
Split(s, sep) ==
    LET i == Find(s, sep, 1)
    IN  IF i = 0 THEN <<s>>
        ELSE <<SubSeq(s, 1, i - 1)>> \o Split(SubSeq(s, i + Len(sep), Len(s)), sep)

\* str.split(sep, 1)
Split1(s, sep) ==
    LET i == Find(s, sep, 1)
    IN  IF i = 0 THEN <<s>>
        ELSE <<SubSeq(s, 1, i - 1), SubSeq(s, i + Len(sep), Len(s))>>

\* the last index of the run of \w characters that starts at i
RECURSIVE WordEnd(_, _)
WordEnd(s, i) == IF i + 1 <= Len(s) /\ IsWord(s[i + 1]) THEN WordEnd(s, i + 1) ELSE i

(***************************************************************************)
(* parse_action_args_pair (parser.py 134-146).                             *)
(***************************************************************************)
\* (\s|\\n)* at j, greedy: the index after the run
RECURSIVE SkipGap(_, _)
SkipGap(s, j) ==
    IF j <= Len(s) /\ s[j] \in Space THEN SkipGap(s, j + 1)
    ELSE IF j + 1 <= Len(s) /\ s[j] = BS /\ s[j + 1] = "n" THEN SkipGap(s, j + 2)
    ELSE j

\* the least element of a non-empty set of integers
Least(S) == CHOOSE x \in S : \A y \in S : x <= y

\* ['"]=['"] occurs in s at index i
QuotedEqAt(s, i) ==
    i + 2 <= Len(s) /\ s[i] \in Quotes /\ s[i + 1] = "=" /\ s[i + 2] \in Quotes

\* line 136: re.sub(r'[\'"]=[\'"](\s|\\n)*', '', args_str): every leftmost
\* non-overlapping match is removed
RECURSIVE SubQuotedEq(_)
SubQuotedEq(s) ==
    LET M == {i \in 1..Len(s) : QuotedEqAt(s, i)}
    IN  IF M = {} THEN s
        ELSE SubSeq(s, 1, Least(M) - 1)
                \o SubQuotedEq(SubSeq(s, SkipGap(s, Least(M) + 3), Len(s)))

\* \\['"]=\\['"] occurs in s at index i
EscapedQuotedEqAt(s, i) ==
    /\ i + 4 <= Len(s)
    /\ s[i] = BS /\ s[i + 1] \in Quotes /\ s[i + 2] = "="
    /\ s[i + 3] = BS /\ s[i + 4] \in Quotes

\* line 138: re.sub(r'\\[\'"]=\\[\'"](\s|\\n)*', '', args_str)
RECURSIVE SubEscapedQuotedEq(_)
SubEscapedQuotedEq(s) ==
    LET M == {i \in 1..Len(s) : EscapedQuotedEqAt(s, i)}
    IN  IF M = {} THEN s
        ELSE SubSeq(s, 1, Least(M) - 1)
                \o SubEscapedQuotedEq(SubSeq(s, SkipGap(s, Least(M) + 5), Len(s)))

\* the least index q >= p with s[q] = c, 0 when none
NextIndex(s, p, c) == Find(s, <<c>>, p)

\* \(.*\) at p (s[p] = "("): the last ")" after p on p's line, 0 when none
LastCloseOnLine(s, p) ==
    LET ok(q) == s[q] = ")" /\ \A k \in (p + 1)..(q - 1) : s[k] # NL
    IN  IF \E q \in (p + 1)..Len(s) : ok(q)
        THEN CHOOSE q \in (p + 1)..Len(s) : ok(q) /\ \A r \in (q + 1)..Len(s) : ~ok(r)
        ELSE 0

\* [^,\s]+ at p, greedy: the last index of the run (p - 1 when it is empty)
RECURSIVE BareEnd(_, _)
BareEnd(s, p) ==
    IF p <= Len(s) /\ s[p] \notin (Space \cup {","}) THEN BareEnd(s, p + 1) ELSE p - 1

NoMatch == [ok |-> FALSE, groups |-> <<>>, end |-> 0]

\* line 139: the pattern tried at index i; groups = <<key, single-quoted,
\* double-quoted, parenthesised, bare>>, end = the index after the match
MatchPairAt(s, i) ==
    IF ~IsWord(s[i]) THEN NoMatch
    ELSE
    LET j == WordEnd(s, i)
        key == SubSeq(s, i, j)
        p == j + 2
    IN  IF ~(j + 1 <= Len(s) /\ s[j + 1] = "=") \/ p > Len(s) THEN NoMatch
        ELSE IF s[p] = SQ /\ NextIndex(s, p + 1, SQ) # 0
             THEN LET q == NextIndex(s, p + 1, SQ)
                  IN  [ok |-> TRUE, end |-> q + 1,
                       groups |-> <<key, SubSeq(s, p + 1, q - 1), <<>>, <<>>, <<>> >>]
        ELSE IF s[p] = DQ /\ NextIndex(s, p + 1, DQ) # 0
             THEN LET q == NextIndex(s, p + 1, DQ)
                  IN  [ok |-> TRUE, end |-> q + 1,
                       groups |-> <<key, <<>>, SubSeq(s, p + 1, q - 1), <<>>, <<>> >>]
        ELSE IF s[p] = "(" /\ LastCloseOnLine(s, p) # 0
             THEN LET q == LastCloseOnLine(s, p)
                  IN  [ok |-> TRUE, end |-> q + 1,
                       groups |-> <<key, <<>>, <<>>, SubSeq(s, p, q), <<>> >>]
        ELSE IF BareEnd(s, p) >= p
             THEN LET q == BareEnd(s, p)
                  IN  [ok |-> TRUE, end |-> q + 1,
                       groups |-> <<key, <<>>, <<>>, <<>>, SubSeq(s, p, q)>>]
        ELSE NoMatch

\* line 140: re.findall(pattern, args_str), scanning from index i: the leftmost
\* match, then on from its end
RECURSIVE FindAllPairs(_, _)
\* the match m, then the matches from its end on
MatchThenRest(s, m) == <<m.groups>> \o FindAllPairs(s, m.end)

\* M: the indices from the scan position on where the pattern matches
LeftmostThenRest(s, M) ==
    IF M = {} THEN <<>> ELSE MatchThenRest(s, MatchPairAt(s, Least(M)))

FindAllPairs(s, i) == LeftmostThenRest(s, {k \in i..Len(s) : MatchPairAt(s, k).ok})

\* line 144: next(v for v in match[1:] if v) finds a non-empty group
HasValue(g) == \E k \in 2..5 : g[k] # <<>>
FirstValue(g) == g[CHOOSE k \in 2..5 : g[k] # <<>> /\ \A m \in 2..(k - 1) : g[m] = <<>>]

\* ok = FALSE: line 144 raised StopIteration (a match whose groups are all empty)
\* lines 141-146: the loop over matches
PairStrings(matches) ==
    IF \E k \in 1..Len(matches) : ~HasValue(matches[k])
    THEN [ok |-> FALSE, result |-> <<>>]
    ELSE [ok |-> TRUE,
          result |-> [k \in 1..Len(matches) |->
                        matches[k][1] \o <<"=">> \o FirstValue(matches[k])]]

parse_action_args_pair(args_str) ==
    PairStrings(FindAllPairs(SubEscapedQuotedEq(SubQuotedEq(args_str)), 1))

(***************************************************************************)
(* parse_action (parser.py 98-131).                                        *)
(***************************************************************************)
\* the return value None (line 131)
None == [ok |-> FALSE, function |-> <<>>, args |-> <<>>]

\* line 100-101: ^(\w+)\((.*)\)$ matches s
IsFunctionCall(s) ==
    /\ Len(s) >= 3
    /\ IsWord(s[1])
    /\ LET j == WordEnd(s, 1)
       IN  /\ j + 2 <= Len(s)
           /\ s[j + 1] = "("
           /\ s[Len(s)] = ")"
           /\ \A k \in (j + 2)..(Len(s) - 1) : s[k] # NL

\* lines 122-124
BBoxValue(value) ==
    IF Contains(value, <<"<bbox>">>)
    THEN <<"(">> \o Replace(Replace(Replace(value, <<"<bbox>">>, <<>>),
                                       <<"</bbox>">>, <<>>), <<SP>>, <<",">>) \o <<")">>
    ELSE value

\* kwargs[key] = value on the ordered dict kw, a sequence of <<key, value>>
DictSet(kw, key, value) ==
    IF \E k \in 1..Len(kw) : kw[k][1] = key
    THEN [k \in 1..Len(kw) |-> IF kw[k][1] = key THEN <<key, value>> ELSE kw[k]]
    ELSE Append(kw, <<key, value>>)

\* lines 113-126: the loop over arg_pairs from index k on
RECURSIVE Kwargs(_, _, _)
Kwargs(pairs, k, kw) ==
    IF k > Len(pairs) THEN kw
    ELSE LET parts == Split1(pairs[k], <<"=">>)
         IN  IF parts[1] = <<>> THEN Kwargs(pairs, k + 1, kw)
             ELSE LET key == Strip(parts[1])
                      raw == IF Len(parts) > 1 THEN Strip(parts[2]) ELSE <<>>
                      value == BBoxValue(StripSet(raw, Quotes))
                  IN  Kwargs(pairs, k + 1, DictSet(kw, key, value))

\* lines 111-128: the dict returned for arg_pairs, None when
\* parse_action_args_pair raised
CallWith(function_name, arg_pairs) ==
    IF ~arg_pairs.ok THEN None
    ELSE [ok |-> TRUE, function |-> function_name,
          args |-> Kwargs(arg_pairs.result, 1, <<>>)]

parse_action(str) ==
    LET s == Strip(str)
    IN  IF ~IsFunctionCall(s) THEN None
        ELSE LET j == WordEnd(s, 1)
                 function_name == SubSeq(s, 1, j)
                 args_str == SubSeq(s, j + 2, Len(s) - 1)
             IN  IF Strip(args_str) = <<>>
                 THEN [ok |-> TRUE, function |-> function_name, args |-> <<>>]
                 ELSE CallWith(function_name, parse_action_args_pair(args_str))

(***************************************************************************)
(* parse_action_vlm (parser.py 11-95).                                     *)
(* A float is the exact rational <<numerator, denominator>>.  An attribute *)
(* value of ActionInputs is None, a str, the str json.dumps() made of a    *)
(* list of floats, or a list of floats.                                    *)
(***************************************************************************)
NoneV == [t |-> "None"]
StrV(s) == [t |-> "str", v |-> s]
JsonV(l) == [t |-> "json", v |-> l]
ListV(l) == [t |-> "list", v |-> l]

\* views.py 7-16: the declared fields, all None
Fields == {<<"content">>, <<"start_box">>, <<"end_box">>, <<"key">>, <<"hotkey">>,
           <<"direction">>, <<"start_coords">>, <<"end_coords">>}
ActionInputs == [f \in Fields |-> NoneV]

\* setattr(o, name, value): any name, declared or not
SetAttr(o, name, value) ==
    [f \in DOMAIN o \cup {name} |-> IF f = name THEN value ELSE o[f]]

\* float(str) succeeds: digits, after the surrounding whitespace is dropped
IsFloat(s) == Strip(s) # <<>> /\ \A k \in 1..Len(Strip(s)) : Strip(s)[k] \in Digits

DigitValue(c) ==
    CASE c = "0" -> 0 [] c = "1" -> 1 [] c = "2" -> 2 [] c = "5" -> 5

RECURSIVE Decimal(_)
Decimal(s) ==
    IF s = <<>> THEN 0 ELSE 10 * Decimal(SubSeq(s, 1, Len(s) - 1)) + DigitValue(s[Len(s)])

\* float(str)
Float(s) == Decimal(Strip(s))

\* line 62: [n for n in re.sub(r'[()[\]]', '', ori_box).split(',') if n]
Numbers(ori_box) ==
    SelectSeq(Split(SelectSeq(ori_box, LAMBDA c : c \notin {"(", ")", "[", "]"}), <<",">>),
              LAMBDA n : n # <<>>)

\* line 64, facs = factors
FloatNumbersMutFirstFactor(numbers, facs) ==
    [idx \in 1..Len(numbers) |-> <<Float(numbers[idx]), facs[1]>>]

FloatNumbers(numbers, facs) ==
    [idx \in 1..Len(numbers) |-> <<Float(numbers[idx]), facs[((idx - 1) % 2) + 1]>>]

\* lines 66-67
ExtendPoint(fn) == IF Len(fn) = 2 THEN fn \o <<fn[1], fn[2]>> ELSE fn

\* line 71: screen_context and screen_context.get('width') and .get('height');
\* a missing key is kept as 0, which is falsy like None
HasScreen(ctx) == ctx.given /\ ctx.width # 0 /\ ctx.height # 0

\* line 80: isinstance(n, (int, float)); float_numbers holds floats only
IsNumber(n) == TRUE

\* lines 82-85: round(((a + b) / 2) * dim * factor) / factor * (scale_factor or 1).
\* a and b were divided by this same factor at line 64 (a[2] = b[2] = factor), so
\* ((a + b) / 2) * dim * factor is (a[1] + b[1]) * dim / 2 (in exact arithmetic).
Coord1(a, b, dim, factor, scale) ==
    << Round((a[1] + b[1]) * dim, 2) * (IF scale = 0 THEN 1 ELSE scale), factor >>

Inputs(raised, inputs) == [raised |-> raised, inputs |-> inputs]

\* lines 71-89, for float_numbers fn: IndexError when fn has fewer than 2 items
SetCoords(inputs, param_name, fn, facs, ctx, scale) ==
    IF ~HasScreen(ctx) THEN Inputs(FALSE, inputs)
    ELSE IF Len(fn) < 2 THEN Inputs(TRUE, inputs)
    ELSE LET box_key == IF Contains(param_name, <<"start_box">>)
                        THEN <<"start_coords">> ELSE <<"end_coords">>
             x1 == fn[1]
             y1 == fn[2]
             x2 == IF Len(fn) > 2 THEN fn[3] ELSE x1
             y2 == IF Len(fn) > 3 THEN fn[4] ELSE y1
         IN  IF IsNumber(x1) /\ IsNumber(y1) /\ IsNumber(x2) /\ IsNumber(y2)
             THEN Inputs(FALSE, SetAttr(inputs, box_key,
                     ListV(<<Coord1(x1, x2, ctx.width, facs[1], scale),
                             Coord1(y1, y2, ctx.height, facs[2], scale)>>)))
             ELSE Inputs(FALSE, SetAttr(inputs, box_key, ListV(<<>>)))

\* lines 55-89: one (param_name, param) of params.items(); raised = an exception
\* left the loop: ValueError of float() at line 64, IndexError at lines 73-77
SetParam(inputs, param_name, param, facs, ctx, scale) ==
    IF param = <<>> THEN Inputs(FALSE, inputs)
    ELSE
    LET trimmed_param == Strip(param)
        name == Strip(param_name)
        inputs1 == SetAttr(inputs, name, StrV(trimmed_param))
    IN  IF ~(Contains(param_name, <<"start_box">>) \/ Contains(param_name, <<"end_box">>))
        THEN Inputs(FALSE, inputs1)
        ELSE LET numbers == Numbers(trimmed_param)
             IN  IF \E k \in 1..Len(numbers) : ~IsFloat(numbers[k])
                 THEN Inputs(TRUE, inputs1)
                 ELSE LET fn == ExtendPoint(FloatNumbers(numbers, facs))
                      IN  SetCoords(SetAttr(inputs1, name, JsonV(fn)),
                                    param_name, fn, facs, ctx, scale)

\* lines 54-89: the loop over params.items() from index k on
RECURSIVE SetParams(_, _, _, _, _, _)
\* r: what became of the k-th; the loop ends when it raised
SetRest(r, params, k, facs, ctx, scale) ==
    IF r.raised THEN r ELSE SetParams(r.inputs, params, k + 1, facs, ctx, scale)

SetParams(inputs, params, k, facs, ctx, scale) ==
    IF k > Len(params) THEN Inputs(FALSE, inputs)
    ELSE SetRest(SetParam(inputs, params[k][1], params[k][2], facs, ctx, scale),
                 params, k, facs, ctx, scale)

\* \s* at q, greedy: the index after the run
RECURSIVE SkipSpace(_, _)
SkipSpace(s, q) == IF q <= Len(s) /\ s[q] \in Space THEN SkipSpace(s, q + 1) ELSE q

\* (?=\s*Action:|$) at index q of the stripped text
LookAhead(s, q) ==
    \/ q > Len(s)
    \/ LET r == SkipSpace(s, q) IN r <= Len(s) /\ s[r] = "Action:"

\* ([\s\S]+?)(?=\s*Action:|$) from index a: the last index of the group
LazyEnds(s, a, dot) ==
    {e \in a..Len(s) : LookAhead(s, e + 1) /\ (dot => \A k \in a..e : s[k] # NL)}

\* lines 23-25: re.search(r'Thought: ([\s\S]+?)(?=\s*Action:|$)', text)
ThoughtStarts(s) ==
    {i \in 1..Len(s) : OccursAt(s, <<"Thought:", SP>>, i) /\ LazyEnds(s, i + 2, FALSE) # {}}

\* lines 27-30: positions <<i, m>> of 'Reflection: ' and 'Action_Summary: '
ReflectionStarts(s) ==
    {i \in 1..Len(s) :
        /\ OccursAt(s, <<"Reflection:", SP>>, i)
        /\ \E m \in (i + 3)..Len(s) :
              OccursAt(s, <<"Action_Summary:", SP>>, m) /\ LazyEnds(s, m + 2, FALSE) # {}}

SummaryAfter(s, i) ==
    Least({m \in (i + 3)..Len(s) :
              OccursAt(s, <<"Action_Summary:", SP>>, m) /\ LazyEnds(s, m + 2, FALSE) # {}})

\* lines 32-34: re.search(r'Action_Summary: (.+?)(?=\s*Action:|$)', text)
SummaryStarts(s) ==
    {i \in 1..Len(s) : OccursAt(s, <<"Action_Summary:", SP>>, i) /\ LazyEnds(s, i + 2, TRUE) # {}}

Group(s, a, dot) == Strip(SubSeq(s, a, Least(LazyEnds(s, a, dot))))

\* lines 17-34: <<reflection, thought>> of the stripped text; None is NoneV
Framing(s) ==
    IF StartsWith(s, <<"Thought:">>)
    THEN IF ThoughtStarts(s) = {} THEN <<NoneV, NoneV>>
         ELSE <<NoneV, StrV(Group(s, Least(ThoughtStarts(s)) + 2, FALSE))>>
    ELSE IF StartsWith(s, <<"Reflection:">>)
    THEN IF ReflectionStarts(s) = {} THEN <<NoneV, NoneV>>
         ELSE LET i == Least(ReflectionStarts(s))
                  m == SummaryAfter(s, i)
              IN  <<StrV(Strip(SubSeq(s, i + 2, m - 1))), StrV(Group(s, m + 2, FALSE))>>
    ELSE IF StartsWith(s, <<"Action_Summary:">>)
    THEN IF SummaryStarts(s) = {} THEN <<NoneV, NoneV>>
         ELSE <<NoneV, StrV(Group(s, Least(SummaryStarts(s)) + 2, TRUE))>>
    ELSE <<NoneV, NoneV>>

\* lines 36-40
ActionPortionMutFirst(s) ==
    IF ~Contains(s, <<"Action:">>) THEN s
    ELSE Split(s, <<"Action:">>)[2]

ActionPortion(s) ==
    IF ~Contains(s, <<"Action:">>) THEN s
    ELSE LET action_parts == Split(s, <<"Action:">>)
         IN  action_parts[Len(action_parts)]

\* line 42: action_str.split('\n\n')
AllActions(portion) == Split(portion, <<NL, NL>>)

\* line 46
ActionInstance(raw_str) == parse_action(LStrip(Replace(raw_str, <<NL>>, <<BS, "n">>)))

\* lines 45-93: the PredictionParsed of one raw_str, or the exception
PredictionRecord(action_instance, set, framing) ==
    [raised |-> set.raised,
     reflection |-> framing[1],
     thought |-> IF framing[2] = NoneV THEN <<>> ELSE framing[2].v,
     action_type |-> IF action_instance.ok THEN action_instance.function ELSE <<>>,
     action_inputs |-> set.inputs]

\* lines 47-93, for the action_instance of line 46
PredictionOf(action_instance, framing, facs, ctx, scale) ==
    PredictionRecord(action_instance,
                     IF action_instance.ok
                     THEN SetParams(ActionInputs, action_instance.args, 1, facs, ctx, scale)
                     ELSE Inputs(FALSE, ActionInputs),
                     framing)

Prediction(raw_str, framing, facs, ctx, scale) ==
    PredictionOf(ActionInstance(raw_str), framing, facs, ctx, scale)

\* The call's outcome: raised = TRUE when an exception left parse_action_vlm,
\* else actions is the returned list.
Outcome(preds) ==
    IF \E k \in 1..Len(preds) : preds[k].raised
    THEN [raised |-> TRUE, actions |-> <<>>]
    ELSE [raised |-> FALSE,
          actions |-> [k \in 1..Len(preds) |->
              [reflection |-> preds[k].reflection, thought |-> preds[k].thought,
               action_type |-> preds[k].action_type,
               action_inputs |-> preds[k].action_inputs]]]

\* lines 45-93: the loop over all_actions
Predictions(all_actions, framing, facs, ctx, scale) ==
    [k \in 1..Len(all_actions) |-> Prediction(all_actions[k], framing, facs, ctx, scale)]

\* lines 22-95, for the stripped text s
ParseStripped(s, facs, ctx, scale) ==
    Outcome(Predictions(AllActions(ActionPortion(s)), Framing(s), facs, ctx, scale))

parse_action_vlm(txt, facs, ctx, scale) == ParseStripped(Strip(txt), facs, ctx, scale)

(***************************************************************************)
(* controller.py.  A browser is None (present = FALSE) or a BrowserContext *)
(* with a viewport and the selector_map of its current state.  The calls   *)
(* that send input to the page (mouse, keyboard, element input and click)  *)
(* are numbered within one act() call; env.fail = n makes the n-th of them *)
(* raise (0: none does).  What a handler did is the list of events: the    *)
(* box passed to locate_element and the input sent to the page.  Positions *)
(* are in half pixels.  A message is named by a tag.                       *)
(***************************************************************************)
\* bool(v) of an attribute value; json.dumps never returns ''
Truthy(v) ==
    CASE v.t = "None" -> FALSE
      [] v.t = "str" -> v.v # <<>>
      [] v.t = "list" -> v.v # <<>>
      [] v.t = "json" -> TRUE

\* agent/views.py ActionResult, by keyword; error "" is None
ActionResult(extracted_content, error, include_in_memory, is_step_done) ==
    [extracted_content |-> extracted_content, error |-> error,
     include_in_memory |-> include_in_memory, is_step_done |-> is_step_done]

NoActionResult == ActionResult("", "", FALSE, FALSE)

\* What a handler comes to: it returned result, or it raised
Returned(res, evs) == [raised |-> FALSE, result |-> res, events |-> evs]
Raised(evs) == [raised |-> TRUE, result |-> NoActionResult, events |-> evs]

\* parser.py 181-194: get_screen_point; raises when json.loads or the unpacking
\* of coordinates[:2] does
CanScreenPoint(start_box) == start_box.t = "json" /\ Len(start_box.v) >= 2

get_screen_point(start_box, sz) ==
    << (2 * start_box.v[1][1] * sz[1]) \div start_box.v[1][2],
       (2 * start_box.v[2][1] * sz[2]) \div start_box.v[2][2] >>

\* lines 17-31: get_screen_point_bbox
get_screen_point_bbox(b_box, brow) ==
    IF ~Truthy(b_box) THEN [raised |-> TRUE, point |-> <<0, 0>>, bbox |-> <<0, 0, 0, 0>>]
    ELSE IF brow.viewport[1] = 0 \/ brow.viewport[2] = 0 \/ ~CanScreenPoint(b_box)
    THEN [raised |-> TRUE, point |-> <<0, 0>>, bbox |-> <<0, 0, 0, 0>>]
    ELSE LET pt == get_screen_point(b_box, brow.viewport)
         IN  [raised |-> FALSE, point |-> pt,
              bbox |-> screen_point_to_bbox(pt, brow.viewport[1], brow.viewport[2])]

\* lines 34-37: locate_element; elem 0 is None
locate_element(start_box, brow) ==
    LET res == get_screen_point_bbox(start_box, brow)
    IN  IF res.raised THEN [raised |-> TRUE, elem |-> 0]
        ELSE [raised |-> FALSE, elem |-> get_element_by_bbox(res.bbox, brow.selector_map)]

\* lines 98-131: click; env.click is what the page does with the click
click(p, brow, env) ==
    LET start_box == p.action_inputs[<<"start_box">>]
        loc == locate_element(start_box, brow)
        ev == << <<"locate", start_box>> >>
    IN  IF loc.raised \/ loc.elem = 0 THEN Raised(ev)
        ELSE IF env.click = "file_uploader"
        THEN Returned(ActionResult("file_upload", "", TRUE, FALSE), ev)
        ELSE IF env.fail = 1
        THEN Returned(ActionResult("", "click_failed", FALSE, FALSE), ev)
        ELSE LET ev1 == Append(ev, <<"click", loc.elem>>)
                 msg == IF env.click = "download" THEN "downloaded" ELSE "clicked"
             IN  IF env.click # "new_tab"
                 THEN Returned(ActionResult(msg, "", TRUE, FALSE), ev1)
                 ELSE IF env.fail = 2
                 THEN Returned(ActionResult("", "click_failed", FALSE, FALSE), ev1)
                 ELSE Returned(ActionResult("clicked_new_tab", "", TRUE, FALSE),
                               Append(ev1, <<"switch_to_tab">>))

\* int(x) of the rational n/d, d > 0: truncation toward zero
Trunc(n, d) == IF n >= 0 THEN n \div d ELSE -((-n) \div d)

steps == 10

\* lines 157-162: the i-th intermediate position, in half pixels
Intermediate(src, tgt, i) ==
    << 2 * Trunc(src[1] * steps + (tgt[1] - src[1]) * i, 2 * steps),
       2 * Trunc(src[2] * steps + (tgt[2] - src[2]) * i, 2 * steps) >>

\* lines 144-174: the mouse calls of drag, in order; line 155: steps
DragEvents(src, tgt) ==
    << <<"move", src[1], src[2]>>, <<"down">> >>
    \o [i \in 1..steps |-> <<"move", Intermediate(src, tgt, i)[1], Intermediate(src, tgt, i)[2]>>]
    \o << <<"move", tgt[1], tgt[2]>>, <<"move", tgt[1], tgt[2]>>, <<"up">> >>

\* lines 133-182: drag
drag(p, brow, env) ==
    LET drag_source == get_screen_point_bbox(p.action_inputs[<<"start_box">>], brow)
        drag_target == get_screen_point_bbox(p.action_inputs[<<"end_box">>], brow)
    IN  IF drag_source.raised \/ drag_target.raised THEN Raised(<<>>)
        ELSE LET all == DragEvents(drag_source.point, drag_target.point)
             IN  IF env.fail = 1
                 THEN Returned(ActionResult("", "move_to_source_failed", TRUE, FALSE), <<>>)
                 ELSE IF env.fail \in 2..Len(all)
                 THEN Returned(ActionResult("", "drag_failed", TRUE, FALSE),
                               SubSeq(all, 1, env.fail - 1))
                 ELSE Returned(ActionResult("dragged", "", TRUE, FALSE), all)

\* lines 185-207: type
type(p, brow, has_sensitive_data, ls, env) ==
    LET own == p.action_inputs[<<"start_box">>]
    IN  IF ~Truthy(own) /\ "start_box" \notin DOMAIN ls THEN Raised(<<>>)
        ELSE
        LET start_box == IF Truthy(own) THEN own ELSE ls["start_box"]
            loc == locate_element(start_box, brow)
            ev == << <<"locate", start_box>> >>
            content == IF Truthy(p.action_inputs[<<"content">>])
                       THEN p.action_inputs[<<"content">>].v ELSE <<>>
        IN  IF loc.raised \/ loc.elem = 0 THEN Raised(ev)
            ELSE IF env.fail = 1 THEN Raised(ev)
            ELSE Returned(ActionResult(IF has_sensitive_data THEN "input_sensitive"
                                       ELSE "input", "", TRUE, FALSE),
                          Append(ev, <<"input_text", loc.elem, content>>))

\* lines 229-240: the wheel call of a direction, deltas in tenths of a pixel
Wheel(direction, viewport) ==
    CASE direction = <<"down">> -> << <<"wheel", 0, 7 * viewport[2]>> >>
      [] direction = <<"up">> -> << <<"wheel", 0, -(7 * viewport[2])>> >>
      [] direction = <<"right">> -> << <<"wheel", 0, 7 * viewport[1]>> >>
      [] direction = <<"left">> -> << <<"wheel", 0, -(7 * viewport[1])>> >>
      [] OTHER -> <<>>

\* lines 209-247: scroll
scroll(p, brow, env) ==
    LET point_bbox == get_screen_point_bbox(p.action_inputs[<<"start_box">>], brow)
        direction == p.action_inputs[<<"direction">>]
    IN  IF point_bbox.raised THEN Raised(<<>>)
        ELSE IF ~Truthy(direction)
        THEN Returned(ActionResult("no_direction", "", TRUE, FALSE), <<>>)
        ELSE IF env.fail = 1
        THEN Returned(ActionResult("", "move_to_source_failed", TRUE, FALSE), <<>>)
        ELSE LET ev == << <<"move", point_bbox.point[1], point_bbox.point[2]>> >>
                 wheel == Wheel(direction.v, brow.viewport)
             IN  IF env.fail = 2 /\ wheel # <<>> THEN Raised(ev)
                 ELSE Returned(ActionResult("scrolled", "", TRUE, FALSE), ev \o wheel)

\* lines 249-251: finished
finished(p, brow, env) ==
    Returned(ActionResult(p.thought, "", FALSE, TRUE), <<>>)

\* agent/uitars/keyboard.py transform_hotkey_input is not part of the sources
\* at hand: the keys of a hotkey are taken to be the one key it names
transform_hotkey_input(key) == <<key>>

\* lines 253-271: hotkey
hotkey(p, brow, env) ==
    LET key == p.action_inputs[<<"key">>]
    IN  IF ~Truthy(key) THEN Raised(<<>>)
        ELSE LET keys == transform_hotkey_input(key.v)
             IN  IF env.fail \in 1..Len(keys)
                 THEN Raised([k \in 1..(env.fail - 1) |-> <<"press", keys[k]>>])
                 ELSE Returned(ActionResult("sent_keys", "", TRUE, FALSE),
                               [k \in 1..Len(keys) |-> <<"press", keys[k]>>])

\* lines 273-279: wait
wait(p, brow, env) ==
    Returned(ActionResult("waiting", "", TRUE, FALSE), << <<"sleep", 3>> >>)

\* lines 97-279: the names registry.action() registers
RegisteredActions ==
    {<<"click">>, <<"drag">>, <<"type">>, <<"scroll">>, <<"finished">>, <<"hotkey">>,
     <<"wait">>}

\* lines 87-90: what leaves execute_action when the handler came to r
Wrapped(r) ==
    [error |-> IF r.raised THEN "RuntimeError" ELSE "",
     result |-> r.result, events |-> r.events]

\* lines 55-90: execute_action; error is the exception that leaves it
execute_action(p, brow, sensitive_data, ls, env) ==
    LET action_name == p.action_type
    IN  IF action_name \notin RegisteredActions
        THEN [error |-> "ValueError", result |-> NoActionResult, events |-> <<>>]
        ELSE IF ~brow.present
        THEN [error |-> "RuntimeError", result |-> NoActionResult, events |-> <<>>]
        ELSE Wrapped(CASE action_name = <<"click">> -> click(p, brow, env)
                       [] action_name = <<"drag">> -> drag(p, brow, env)
                       [] action_name = <<"type">> -> type(p, brow, sensitive_data, ls, env)
                       [] action_name = <<"scroll">> -> scroll(p, brow, env)
                       [] action_name = <<"finished">> -> finished(p, brow, env)
                       [] action_name = <<"hotkey">> -> hotkey(p, brow, env)
                       [] action_name = <<"wait">> -> wait(p, brow, env))

\* lines 290-297: the memo of the last boxes, written before the dispatch
Remember(ls, key, value) ==
    IF Truthy(value) THEN [k \in DOMAIN ls \cup {key} |-> IF k = key THEN value ELSE ls[k]]
    ELSE ls

UpdateLastStateMutKnownOnly(ls, p) ==
    IF p.action_type \in RegisteredActions
    THEN Remember(Remember(Remember(Remember(ls,
            "start_box", p.action_inputs[<<"start_box">>]),
            "end_box", p.action_inputs[<<"end_box">>]),
            "start_coords", p.action_inputs[<<"start_coords">>]),
            "end_coords", p.action_inputs[<<"end_coords">>])
    ELSE ls

UpdateLastState(ls, p) ==
    Remember(Remember(Remember(Remember(ls,
        "start_box", p.action_inputs[<<"start_box">>]),
        "end_box", p.action_inputs[<<"end_box">>]),
        "start_coords", p.action_inputs[<<"start_coords">>]),
        "end_coords", p.action_inputs[<<"end_coords">>])

(***************************************************************************)
(* Specifications.                                                         *)
(***************************************************************************)
IdleResolver == bbox = <<0, 0, 0, 0>> /\ selector_map = <<>> /\ element = 0
IdleBBox == point = <<0, 0>> /\ size = <<0, 0>> /\ box = <<0, 0, 0, 0>>
IdleParse == action_str = <<>> /\ parsed = None
NoScreen == [given |-> FALSE, width |-> 0, height |-> 0]
NoResult == [raised |-> FALSE, actions |-> <<>>]
IdleVlm ==
    /\ text = <<>> /\ factors = <<1000, 1000>> /\ screen_context = NoScreen
    /\ scale_factor = 0 /\ result = NoResult

NoBrowser == [present |-> FALSE, viewport |-> <<0, 0>>, selector_map |-> <<>>]
NoPrediction == [action_type |-> <<>>, thought |-> "", action_inputs |-> ActionInputs]
NoOutcome == [error |-> "", result |-> NoActionResult, events |-> <<>>]
IdleController ==
    /\ last_state = <<>> /\ browser = NoBrowser /\ prediction = NoPrediction
    /\ outcome = NoOutcome /\ calls = <<>>

\* --- get_element_by_bbox ---
InitResolver ==
    /\ pc = "call"
    /\ bbox \in QueryBoxes
    /\ selector_map \in SeqUpTo(PageElements, MaxElems)
    /\ element = 0
    /\ IdleBBox /\ IdleParse /\ IdleVlm /\ IdleController

GetElementByBBox ==
    /\ pc = "call"
    /\ element' = get_element_by_bbox(bbox, selector_map)
    /\ pc' = "done"
    /\ UNCHANGED <<bbox, selector_map, point, size, box, action_str, parsed,
                   text, factors, screen_context, scale_factor, result,
                   ctlVars>>

SpecResolver == InitResolver /\ [][GetElementByBBox]_vars

\* --- screen_point_to_bbox ---
InitBBox ==
    /\ pc = "call"
    /\ point \in ((-MaxPoint)..(2 * MaxPoint)) \X ((-MaxPoint)..(2 * MaxPoint))
    /\ size \in ScreenDims \X ScreenDims
    /\ box = <<0, 0, 0, 0>>
    /\ IdleResolver /\ IdleParse /\ IdleVlm /\ IdleController

ScreenPointToBBox ==
    /\ pc = "call"
    /\ box' = screen_point_to_bbox(point, size[1], size[2])
    /\ pc' = "done"
    /\ UNCHANGED <<bbox, selector_map, element, point, size, action_str, parsed,
                   text, factors, screen_context, scale_factor, result,
                   ctlVars>>

SpecBBox == InitBBox /\ [][ScreenPointToBBox]_vars

\* --- parse_action ---
ActionNames == {<<"click">>, <<"type">>}
ArgNames == {<<"start_box">>, <<"content">>, <<"end_box">>}

\* Argument values without quote characters and without leading or trailing
\* whitespace.
ArgValues ==
    { <<>>, <<"=">>, <<"=", "=">>, <<"x">>, <<"x", SP, "x">>, <<"x", "=", "1">>,
      <<"(", "1", ",", "5", ")">> }

\* name(k1='v1', k2='v2')
QuotedCall(name, k1, v1, k2, v2) ==
    name \o <<"(">> \o k1 \o <<"=", SQ>> \o v1 \o <<SQ, ",", SP>>
         \o k2 \o <<"=", SQ>> \o v2 \o <<SQ, ")">>

QuotedCalls ==
    {QuotedCall(name, k1, v1, k2, v2) :
        name \in ActionNames, k1 \in ArgNames, v1 \in ArgValues,
        k2 \in ArgNames, v2 \in ArgValues}

\* Other action strings: the other value shapes of line 139 and malformed text.
OtherCalls ==
    { <<"wait", "(", ")">>,
      <<"click", "(", "start_box", "=", ")">>,
      <<"click", "(", "start_box", "=", "(", "1", ",", "5", ")", ")">>,
      <<"click", "(", "start_box", "=", DQ, "(", "1", ",", "5", ")", DQ, ")">>,
      <<"type", "(", "content", "=", "x", ",", SP, "start_box", "=", "1", ")">>,
      <<"type", "(", "content", "=", SQ, "x", ")">>,
      <<"click", "(", "start_box", "=", SQ, "=", SQ, BS, "n", "(", "1", ",", "5", ")", ")">>,
      <<"click", "(", "start_box", "=", BS, SQ, "=", BS, SQ, SP, "(", "1", ",", "5", ")", ")">>,
      <<"click", "(", "start_box", "=", SQ, "1", NL, "5", SQ, ")">>,
      <<"click", "(", "start_box", "=", SQ, "<bbox>", "1", SP, "5", "</bbox>", SQ, ")">>,
      <<SP, "click", "(", SP, ")", NL>>,
      <<"click", "(", "content", ")">>,
      <<"click", "(", "start_box", "=", SQ, "1", SQ>>,
      <<"click">>,
      <<"(", "x", ")">>,
      <<>> }

ActionStrs == QuotedCalls \cup OtherCalls

InitParse ==
    /\ pc = "call"
    /\ action_str \in ActionStrs
    /\ parsed = None
    /\ IdleResolver /\ IdleBBox /\ IdleVlm /\ IdleController

ParseAction ==
    /\ pc = "call"
    /\ parsed' = parse_action(action_str)
    /\ pc' = "done"
    /\ UNCHANGED <<bbox, selector_map, element, point, size, box, action_str,
                   text, factors, screen_context, scale_factor, result,
                   ctlVars>>

SpecParse == InitParse /\ [][ParseAction]_vars

\* --- parse_action_vlm ---
MaxActions == 2

\* What precedes the action strings of a response.
Headers ==
    { <<>>,
      <<"Thought:", SP, "x", NL, "Action:", SP>>,
      <<"Thought:", SP, "x", NL>>,
      <<"Reflection:", SP, "x", NL, "Action_Summary:", SP, "n", NL, "Action:", SP>>,
      <<"Action_Summary:", SP, "x", NL, "Action:", SP, "wait", "(", ")", NL, NL, "Action:", SP>> }

\* The action strings of a response.
Actions ==
    { <<"click", "(", "start_box", "=", SQ, "(", "5", ",", "1", "0", ")", SQ, ")">>,
      <<"type", "(", "content", "=", SQ, "x", SQ, ",", SP,
        "end_box", "=", SQ, "[", "1", "0", ",", "2", "0", ",", "2", "0", ",", "5", "0", "]", SQ, ")">>,
      <<"click", "(", "start_box", "=", SQ, "(", "x", ",", "5", ")", SQ, ")">>,
      <<"click", "(", "start_coords", "=", SQ, "5", SQ, ")">>,
      <<"click", "(", "start_box", "=", ")">>,
      <<"x", SP, "x">> }

\* What stands between two action strings.
Separators == { <<NL, NL>>, <<NL, NL, NL>> }

\* The action strings of a response, joined: at most n of them
RECURSIVE ActionTexts(_)
ActionTexts(n) ==
    IF n = 1 THEN Actions
    ELSE ActionTexts(n - 1) \cup
         {t \o sep \o a : t \in ActionTexts(n - 1), sep \in Separators, a \in Actions}

Texts == {h \o t : h \in Headers, t \in ActionTexts(MaxActions)}

FactorPairs == { <<1000, 1000>>, <<10, 20>> }

ScreenContexts ==
    { NoScreen,
      [given |-> TRUE, width |-> 0, height |-> 8],
      [given |-> TRUE, width |-> 10, height |-> 8] }

ScaleFactors == {0, 2}

\* The arguments given with a text: every screen context under the default
\* factors and no scale factor, and the other factors and the scale factor
\* without a screen context and with a full one
CallArgs ==
    {<<f, sc, 0>> : f \in {<<1000, 1000>>}, sc \in ScreenContexts}
    \cup {<<f, sc, scale>> : f \in FactorPairs \ {<<1000, 1000>>},
                             sc \in {c \in ScreenContexts : c = NoScreen \/ HasScreen(c)},
                             scale \in ScaleFactors \ {0}}

InitVlm ==
    /\ pc = "call"
    /\ text \in Texts
    /\ \E a \in CallArgs : factors = a[1] /\ screen_context = a[2] /\ scale_factor = a[3]
    /\ result = NoResult
    /\ IdleResolver /\ IdleBBox /\ IdleParse /\ IdleController

ParseActionVlm ==
    /\ pc = "call"
    /\ result' = parse_action_vlm(text, factors, screen_context, scale_factor)
    /\ pc' = "done"
    /\ UNCHANGED <<bbox, selector_map, element, point, size, box, action_str, parsed,
                   text, factors, screen_context, scale_factor,
                   ctlVars>>

SpecVlm == InitVlm /\ [][ParseActionVlm]_vars

\* --- UITarsController.act, call after call on one controller ---
MaxCalls == 3

\* The viewport and the elements of the page, and the region fields that
\* parse_action_vlm stores for points of it: Box1 lies on the first element,
\* Box2 on the second, Box3 on none.
Viewport == <<20, 20>>
Page ==
    << [has |-> TRUE, left |-> 0, top |-> 0, right |-> 8, bottom |-> 8],
       [has |-> TRUE, left |-> 10, top |-> 10, right |-> 20, bottom |-> 20] >>
PointBox(x, y) == JsonV(<< <<x, 1000>>, <<y, 1000>>, <<x, 1000>>, <<y, 1000>> >>)
Box1 == PointBox(250, 250)
Box2 == PointBox(750, 750)
Box3 == PointBox(750, 250)

Browsers ==
    { NoBrowser,
      [present |-> TRUE, viewport |-> Viewport, selector_map |-> Page],
      [present |-> TRUE, viewport |-> <<0, 20>>, selector_map |-> Page] }

\* What the page does during one call
Env(fail, clk) == [fail |-> fail, click |-> clk]
NoFail == Env(0, "plain")

\* One call of act: its arguments, and what the page does during it
Call(action_type, thought, inputs, sensitive_data, env) ==
    [prediction |-> [action_type |-> action_type, thought |-> thought,
                     action_inputs |-> inputs],
     sensitive_data |-> sensitive_data, env |-> env]

WithBoxes(start_box, end_box) ==
    [ActionInputs EXCEPT ![<<"start_box">>] = start_box, ![<<"end_box">>] = end_box]

ClickCalls ==
    {Call(<<"click">>, "", WithBoxes(Box1, NoneV), FALSE, env) :
        env \in {NoFail, Env(1, "plain"), Env(0, "file_uploader"), Env(0, "download"),
                 Env(0, "new_tab"), Env(2, "new_tab")}}
    \cup {Call(<<"click">>, "", WithBoxes(sb, NoneV), FALSE, NoFail) :
            sb \in {NoneV, Box2, Box3}}

TypeCalls ==
    {Call(<<"type">>, "", [WithBoxes(sb, NoneV) EXCEPT ![<<"content">>] = content],
          FALSE, NoFail) :
        sb \in {NoneV, Box1, Box2, Box3}, content \in {NoneV, StrV(<<"x">>)}}
    \cup {Call(<<"type">>, "", [WithBoxes(sb, NoneV) EXCEPT ![<<"content">>] = StrV(<<"x">>)],
               se[1], Env(se[2], "plain")) :
            sb \in {NoneV, Box1, Box2, Box3}, se \in {<<TRUE, 0>>, <<FALSE, 1>>}}

DragCalls ==
    {Call(<<"drag">>, "", WithBoxes(Box1, Box2), FALSE, Env(fail, "plain")) :
        fail \in 0..(steps + 5)}
    \cup {Call(<<"drag">>, "", WithBoxes(sb, eb), FALSE, NoFail) :
            sb \in {NoneV, Box1}, eb \in {NoneV, Box2}}

Directions == {<<"down">>, <<"up">>, <<"right">>, <<"left">>, <<"x">>}

ScrollCalls ==
    {Call(<<"scroll">>, "", [WithBoxes(Box1, NoneV) EXCEPT ![<<"direction">>] = StrV(d)],
          FALSE, NoFail) : d \in Directions}
    \cup {Call(<<"scroll">>, "",
               [WithBoxes(Box1, NoneV) EXCEPT ![<<"direction">>] = StrV(<<"down">>)],
               FALSE, Env(fail, "plain")) : fail \in 1..2}
    \cup {Call(<<"scroll">>, "", WithBoxes(sb, NoneV), FALSE, NoFail) : sb \in {NoneV, Box1}}

OtherActionCalls ==
    { Call(<<"finished">>, "x", ActionInputs, FALSE, NoFail),
      Call(<<"wait">>, "", ActionInputs, FALSE, NoFail),
      Call(<<"hotkey">>, "", ActionInputs, FALSE, NoFail) }
    \cup {Call(<<"hotkey">>, "", [ActionInputs EXCEPT ![<<"key">>] = StrV(<<"x">>)],
               FALSE, Env(fail, "plain")) : fail \in 0..1}
    \cup {Call(<<>>, "", WithBoxes(sb, NoneV), FALSE, NoFail) : sb \in {NoneV, Box1, Box2}}

ActCalls == ClickCalls \cup TypeCalls \cup DragCalls \cup ScrollCalls \cup OtherActionCalls

Init ==
    /\ pc = "call"
    /\ last_state = <<>>
    /\ browser \in Browsers
    /\ prediction = NoPrediction
    /\ outcome = NoOutcome /\ calls = <<>>
    /\ IdleResolver /\ IdleBBox /\ IdleParse /\ IdleVlm

\* lines 281-309: act
Act(c) ==
    /\ Len(calls) < MaxCalls
    /\ prediction' = c.prediction
    /\ last_state' = UpdateLastState(last_state, c.prediction)
    /\ outcome' = execute_action(c.prediction, browser, c.sensitive_data,
                                 UpdateLastState(last_state, c.prediction), c.env)
    /\ calls' = Append(calls, [start_box |-> c.prediction.action_inputs[<<"start_box">>],
                               error |-> outcome'.error])
    /\ UNCHANGED <<pc, browser, fnVars>>

Next == \E c \in ActCalls : Act(c)

Spec == Init /\ [][Next]_vars

(***************************************************************************)
(* Claims about get_element_by_bbox, under SpecResolver.                   *)
(***************************************************************************)
\* The rectangle of e fully contains the query box b.
FullyContains(b, e) ==
    /\ e.has
    /\ e.left <= b[1] /\ b[3] <= e.right
    /\ e.top <= b[2] /\ b[4] <= e.bottom

MatchSet == {i \in 1..Len(selector_map) : Matches(bbox, selector_map[i])}

\* C1: get_element_by_bbox returns an element only if the element's rectangle
\* fully contains the query box, and returns none when no candidate's rectangle
\* fully contains it.
C1_ReturnsOnlyContaining ==
    pc = "done" =>
        /\ element # 0 => FullyContains(bbox, selector_map[element])
        /\ (\A i \in 1..Len(selector_map) : ~FullyContains(bbox, selector_map[i]))
               => element = 0

\* C2: among the candidates that pass the match test the returned one has
\* minimal area, is the first of minimal area in iteration order, and has
\* viewport coordinates; with no passing candidate the result is none.
C2_SmallestAreaFirst ==
    pc = "done" =>
        IF MatchSet = {} THEN element = 0
        ELSE /\ element \in MatchSet
             /\ selector_map[element].has
             /\ \A j \in MatchSet :
                    /\ Area(selector_map[element]) <= Area(selector_map[j])
                    /\ Area(selector_map[j]) = Area(selector_map[element]) => element <= j

\* Two matching candidates of different rectangles share the minimal area, a
\* candidate without coordinates is present, and the first of the two is returned.
C2_Witness ==
    /\ pc = "done"
    /\ Len(selector_map) = 3
    /\ ~selector_map[1].has
    /\ MatchSet = {2, 3}
    /\ selector_map[2] # selector_map[3]
    /\ Area(selector_map[2]) = Area(selector_map[3])
    /\ element = 2

(***************************************************************************)
(* Claims about parse_action, under SpecParse.                             *)
(***************************************************************************)
\* C3: for every string name(k1='v1', k2='v2') with k1 # k2 and v1, v2 free of
\* quote characters and of leading and trailing whitespace (the empty string
\* and strings of '=' included), parse_action returns function name `name` and
\* exactly the arguments {k1: v1, k2: v2}, k1 before k2.
C3_TwoQuotedArgs ==
    pc = "done" =>
        \A name \in ActionNames, k1 \in ArgNames, k2 \in ArgNames,
           v1 \in ArgValues, v2 \in ArgValues :
            (k1 # k2 /\ action_str = QuotedCall(name, k1, v1, k2, v2)) =>
                parsed = [ok |-> TRUE, function |-> name,
                          args |-> << <<k1, v1>>, <<k2, v2>> >>]

(***************************************************************************)
(* Claims about parse_action_vlm, under SpecVlm.                           *)
(***************************************************************************)
\* The action portion of the trimmed text: what follows the last "Action:",
\* or all of it when there is none.
LastMarker ==
    LET s == Strip(text)
        M == {i \in 1..Len(s) : s[i] = "Action:"}
    IN  IF M = {} THEN 0 ELSE CHOOSE i \in M : \A j \in M : j <= i

Segments == Split(SubSeq(Strip(text), LastMarker + 1, Len(Strip(text))), <<NL, NL>>)

\* The function call parse_action finds in segment k.
SegmentCall(k) == ActionInstance(Segments[k])

\* Segment k is a well-formed call with an argument `name` of value `value`.
HasArg(k, name, value) ==
    /\ SegmentCall(k).ok
    /\ \E a \in 1..Len(SegmentCall(k).args) : SegmentCall(k).args[a] = <<name, value>>

BoxArgs == {<<"start_box">>, <<"end_box">>}
CoordsOf(name) == IF name = <<"start_box">> THEN <<"start_coords">> ELSE <<"end_coords">>

\* C4: when a start_box or end_box argument of a well-formed action has a
\* component that is not a number and the screen context has non-zero width and
\* height, parse_action_vlm returns its records and the record's start_coords /
\* end_coords is the empty list.
C4_NonNumericGivesEmptyCoords ==
    (pc = "done" /\ HasScreen(screen_context)) =>
        \A k \in 1..Len(Segments) :
            LET call == SegmentCall(k)
            IN  \A a \in 1..(IF call.ok THEN Len(call.args) ELSE 0) :
                    LET name == call.args[a][1]
                        raw == Numbers(Strip(call.args[a][2]))
                    IN  ( /\ name \in BoxArgs
                          /\ \E c \in 1..Len(raw) : ~IsFloat(raw[c]) )
                        => /\ ~result.raised
                           /\ Len(result.actions) >= k
                           /\ result.actions[k].action_inputs[CoordsOf(name)] = ListV(<<>>)

\* C5: on every returned record start_coords / end_coords is set only if the
\* caller gave a screen context with non-zero width and height.
C5_CoordsOnlyWithScreen ==
    (pc = "done" /\ ~result.raised) =>
        \A k \in 1..Len(result.actions) :
            ( \/ result.actions[k].action_inputs[<<"start_coords">>] # NoneV
              \/ result.actions[k].action_inputs[<<"end_coords">>] # NoneV )
            => ( /\ screen_context.given
                 /\ screen_context.width # 0
                 /\ screen_context.height # 0 )

\* C6: the returned list is non-empty and holds one record per blank-line-
\* separated segment of the action portion, in segment order, all records with
\* the same thought and the same reflection.
C6_OneRecordPerSegment ==
    (pc = "done" /\ ~result.raised) =>
        /\ Len(result.actions) >= 1
        /\ Len(result.actions) = Len(Segments)
        /\ \A k \in 1..Len(result.actions) :
              LET call == SegmentCall(k)
              IN  /\ result.actions[k].action_type =
                        (IF call.ok THEN call.function ELSE <<>>)
                  /\ result.actions[k].thought = result.actions[1].thought
                  /\ result.actions[k].reflection = result.actions[1].reflection

\* A response with two "Action:" markers, a thought and two segments after the
\* last marker has returned two records of different action types.
C6_Witness ==
    /\ pc = "done" /\ ~result.raised
    /\ Cardinality({i \in 1..Len(text) : text[i] = "Action:"}) = 2
    /\ Len(Segments) = 2
    /\ Len(result.actions) = 2
    /\ result.actions[1].thought # <<>>
    /\ result.actions[1].action_type # result.actions[2].action_type
    /\ result.actions[2].action_type # <<>>

\* C7: parse_action_vlm never raises; a segment that is not of the shape
\* identifier(...) gives, at its position, a record with empty action_type and
\* all-default inputs, and the other segments are parsed as on their own.
C7_MalformedNeverRaises ==
    pc = "done" =>
        /\ ~result.raised
        /\ Len(result.actions) = Len(Segments)
        /\ \A k \in 1..Len(Segments) :
              IF ~SegmentCall(k).ok
              THEN /\ result.actions[k].action_type = <<>>
                   /\ result.actions[k].action_inputs = ActionInputs
              ELSE LET own == parse_action_vlm(Segments[k], factors, screen_context,
                                               scale_factor)
                   IN  /\ ~own.raised
                       /\ result.actions[k].action_type = own.actions[1].action_type
                       /\ result.actions[k].action_inputs = own.actions[1].action_inputs

\* C8: a start_box / end_box argument with 2 or 4 numeric components is stored
\* on its field as 4 components, the one at position i being the raw component
\* divided by factors[i mod 2]; a point (x, y) is stored as (x, y, x, y).
C8_RegionNormalised ==
    (pc = "done" /\ ~result.raised) =>
        \A k \in 1..Len(Segments) :
            LET call == SegmentCall(k)
            IN  \A a \in 1..(IF call.ok THEN Len(call.args) ELSE 0) :
                    LET name == call.args[a][1]
                        raw == Numbers(Strip(call.args[a][2]))
                        stored == result.actions[k].action_inputs[name]
                    IN  ( /\ name \in BoxArgs
                          /\ Len(raw) \in {2, 4}
                          /\ \A c \in 1..Len(raw) : IsFloat(raw[c]) )
                        => /\ stored.t = "json"
                           /\ Len(stored.v) = 4
                           /\ \A i \in 1..4 :
                                 stored.v[i][1] * factors[((i - 1) % 2) + 1]
                                    = Float(raw[((i - 1) % Len(raw)) + 1]) * stored.v[i][2]

\* A point (5, 10) and a rectangle [10, 20, 20, 50] have been stored, under
\* factors that differ between the axes.
C8_Witness ==
    /\ pc = "done" /\ ~result.raised
    /\ factors[1] # factors[2]
    /\ Len(result.actions) = 2
    /\ HasArg(1, <<"start_box">>, <<"(", "5", ",", "1", "0", ")">>)
    /\ result.actions[1].action_inputs[<<"start_box">>] =
          JsonV(<< <<5, 10>>, <<10, 20>>, <<5, 10>>, <<10, 20>> >>)
    /\ result.actions[2].action_inputs[<<"end_box">>] =
          JsonV(<< <<10, 10>>, <<20, 20>>, <<20, 10>>, <<50, 20>> >>)

(***************************************************************************)
(* Claims about screen_point_to_bbox, under SpecBBox.                      *)
(***************************************************************************)
\* C9: the returned box is clamped to the screen, 0 <= x1 <= x2 <= width and
\* 0 <= y1 <= y2 <= height, and for a whole-pixel point at least 5px inside
\* every edge it is exactly (x-5, y-5, x+5, y+5).
C9_BoxClamped ==
    pc = "done" =>
        /\ 0 <= box[1] /\ box[1] <= box[3] /\ box[3] <= size[1]
        /\ 0 <= box[2] /\ box[2] <= box[4] /\ box[4] <= size[2]
        /\ ( /\ point[1] % 2 = 0 /\ point[2] % 2 = 0
             /\ point[1] >= BBOX_SIZE /\ point[1] + BBOX_SIZE <= 2 * size[1]
             /\ point[2] >= BBOX_SIZE /\ point[2] + BBOX_SIZE <= 2 * size[2] )
            => box = << (point[1] - BBOX_SIZE) \div 2, (point[2] - BBOX_SIZE) \div 2,
                        (point[1] + BBOX_SIZE) \div 2, (point[2] + BBOX_SIZE) \div 2 >>

(***************************************************************************)
(* Claims about UITarsController.act, under Spec.                          *)
(***************************************************************************)
Greatest(S) == CHOOSE x \in S : \A y \in S : y <= x

\* The earlier calls that carried a non-empty start_box
EarlierWithBox == {i \in 1..(Len(calls) - 1) : Truthy(calls[i].start_box)}

\* The boxes the last call located with
LocatedWith ==
    {outcome.events[k][2] :
        k \in {j \in 1..Len(outcome.events) : outcome.events[j][1] = "locate"}}

EnteredText == \E k \in 1..Len(outcome.events) : outcome.events[k][1] = "input_text"

\* C10: over the act calls made on one controller, a type action whose
\* prediction carries no start_box locates its target with the start_box of the
\* most recent earlier call that carried one, whatever came of that call: with
\* a browser it does locate, and every box it locates with is that one.  When
\* no earlier call carried a start_box the type action ends in an error and
\* enters no text.
C10_TypeFallsBackToLastStartBox ==
    (/\ calls # <<>>
     /\ prediction.action_type = <<"type">>
     /\ ~Truthy(prediction.action_inputs[<<"start_box">>]))
    => IF EarlierWithBox = {}
       THEN outcome.error # "" /\ ~EnteredText
       ELSE /\ LocatedWith \subseteq {calls[Greatest(EarlierWithBox)].start_box}
            /\ (browser.present => LocatedWith # {})

\* The third call is a type action without a start_box; the first call carried
\* Box1, the second carried Box2 and ended in an error: the text goes into the
\* element under Box2.
C10_Witness ==
    /\ Len(calls) = 3
    /\ calls[1].start_box = Box1
    /\ calls[2].start_box = Box2 /\ calls[2].error # ""
    /\ prediction.action_type = <<"type">>
    /\ prediction.action_inputs[<<"start_box">>] = NoneV
    /\ outcome.events = << <<"locate", Box2>>, <<"input_text", 2, <<"x">> >> >>
    /\ outcome.error = ""

\* The kinds of the events of the last call, in order
Kinds == [k \in 1..Len(outcome.events) |-> outcome.events[k][1]]

\* The positions in the events of the last call that are of a kind
Issued(kind) == {k \in 1..Len(Kinds) : Kinds[k] = kind}

\* C11: the mouse events of a drag come in the order move to source, button
\* down, intermediate moves, move to target, button up: a button down is the
\* second event and follows a move, a button up is the last event and follows
\* the button down and the moves after it; and whenever the button down was
\* issued, a button up is issued before the action returns, also when a later
\* mouse move fails.
C11_DragReleasesButton ==
    (calls # <<>> /\ prediction.action_type = <<"drag">>) =>
        /\ \A k \in Issued("down") : k = 2 /\ Kinds[1] = "move"
        /\ \A k \in Issued("up") :
              /\ k = Len(Kinds)
              /\ k >= steps + 4
              /\ Kinds[2] = "down"
              /\ \A j \in 3..(k - 1) : Kinds[j] = "move"
        /\ (Issued("down") # {} => Issued("up") # {})

\* C12: a scroll that returns its 'Scrolled' message issues one wheel event
\* along the axis of its direction, deltas in tenths of a pixel: down and up
\* give (0, +-0.7 x viewport height), right and left give
\* (+-0.7 x viewport width, 0); a scroll without a direction issues no wheel
\* event.
C12_ScrollsAlongAxis ==
    (calls # <<>> /\ prediction.action_type = <<"scroll">> /\ outcome.error = "") =>
        LET direction == prediction.action_inputs[<<"direction">>]
            wheels == SelectSeq(outcome.events, LAMBDA e : e[1] = "wheel")
        IN  /\ ~Truthy(direction) => Issued("wheel") = {}
            /\ (Truthy(direction) /\ outcome.result.extracted_content = "scrolled") =>
                  /\ direction.v = <<"down">> =>
                        wheels = << <<"wheel", 0, 7 * browser.viewport[2]>> >>
                  /\ direction.v = <<"up">> =>
                        wheels = << <<"wheel", 0, -(7 * browser.viewport[2])>> >>
                  /\ direction.v = <<"right">> =>
                        wheels = << <<"wheel", 7 * browser.viewport[1], 0>> >>
                  /\ direction.v = <<"left">> =>
                        wheels = << <<"wheel", -(7 * browser.viewport[1]), 0>> >>

====
